---- MODULE Spec2Model ----
(***************************************************************************)
(* PyWebCAT: the WebCAT session (pywebcat/utils.py) and the batch driver   *)
(* main() (pywebcat/cli.py).                                               *)
(*                                                                         *)
(* Spec      : one session driven by arbitrary generate_url / save_frames  *)
(*             calls (the library used directly).                          *)
(* SpecMain  : the batch driver main() looping over the cross-product.     *)
(*                                                                         *)
(* Strings are modelled as tuples of their formatted parts; a number       *)
(* formatted into a string is the tuple of its decimal digits.             *)
(***************************************************************************)
EXTENDS Integers, Sequences, FiniteSets, TLC

(* ------------------------------ bounds --------------------------------- *)
\* largest frame count a probed stream reports
MaxFrames == 5
\* largest sampling interval (seconds) a caller passes
MaxDelta == 3
\* number of library calls in one run of Spec
MaxCalls == 3

\* sampling intervals passed by callers: negative, zero and positive
Deltas == (-1)..MaxDelta
\* (truncated) frame rates a probed stream reports
FpsValues == {0, 1, 2}
\* frame counts reported to a direct caller's probe
ApiFrames == 0..MaxFrames
\* frame counts and rates reported to the driver's probes
MainFrames == {0, MaxFrames - 1, MaxFrames}
MainFps == {1, 2}

(* --------------------------- string formatting ------------------------- *)
RECURSIVE Fmt(_)
\* f"{n}" for a non-negative int: its decimal digits
Fmt(n) == IF n < 10 THEN <<n>> ELSE Append(Fmt(n \div 10), n % 10)

RECURSIVE Pad(_, _)
\* left-fill a digit string with zeros up to width w
Pad(s, w) == IF Len(s) >= w THEN s ELSE Pad(<<0>> \o s, w)

\* f"{n:02}" / f"{n:04}": zero-padded to a minimum width, never truncated
FmtW(n, w) == Pad(Fmt(n), w)

\* a resource key is the tuple <<station, year, month, day, time>>
\* the url of generate_url: the placeholders of the template, in order
GenUrl(item) ==
    << item[1], Fmt(item[2]), Fmt(item[2]), FmtW(item[3], 2),
       Fmt(item[2]), FmtW(item[3], 2), FmtW(item[4], 2),
       item[1], Fmt(item[2]), FmtW(item[3], 2), FmtW(item[4], 2),
       FmtW(item[5], 4) >>

\* the name of generate_url: unpadded fields joined by "_"
GenName(item) ==
    << item[1], Fmt(item[2]), Fmt(item[3]), Fmt(item[4]), Fmt(item[5]) >>

\* the url the driver rebuilds in its except block
SkipUrl(item) ==
    << item[1], Fmt(item[2]), Fmt(item[2]), FmtW(item[3], 2),
       Fmt(item[2]), FmtW(item[3], 2), FmtW(item[4], 2),
       item[1], Fmt(item[2]), FmtW(item[3], 2), FmtW(item[4], 2),
       FmtW(item[5], 4) >>

(* ------------------------------- values -------------------------------- *)
\* Python None for url / name
None == <<>>
\* self.video = None: no capture object held
NoVideo == [sid |-> 0, item |-> <<>>, frames |-> 0, fps |-> 0]

\* keys used by direct callers of the library
ApiItems == { <<"buxton", 2019, 11, 13, 1000>>, <<"fake", 2019, 9, 5, 30>> }
\* output directories used by direct callers of the library
ApiDirs == { <<"out">> }
\* what an earlier run of the program may have left in an output directory:
\* nothing, or frames of some other video
OldItem == <<"old", 2018, 1, 2, 3>>
OldFrames(dir) == { [dir |-> dir, frame |-> i, src |-> OldItem] : i \in {0, 1, 7} }

VARIABLES
    url,        \* WebCAT.url
    name,       \* WebCAT.name
    video,      \* WebCAT.video: the held capture (NoVideo for None)
    vid,        \* the local `vid` of a generate_url in progress
    open,       \* ids of the capture objects that hold an open stream
    jpgDirs,    \* the output directories whose jpg subdirectory exists
    jpgFiles,   \* the frame files: [dir, frame, src] (src: key of the video)
    csvFiles,   \* the manifest files: [dir, name, rows]
    madeDirs,   \* directories created by the driver's os.makedirs
    stdout,     \* sys.stdout: "real" or "devnull"
    console,    \* what was printed while sys.stdout was the real stream
    devnull,    \* what was printed while sys.stdout was os.devnull
    last,       \* record of the most recent library call
    pc,         \* position of the caller
    calls,      \* library calls made so far (Spec)
    batch,      \* the driver's arguments
    idx,        \* the driver's position in the cross-product
    log         \* per key handled by the driver: what happened

vars == << url, name, video, vid, open, jpgDirs, jpgFiles, csvFiles, madeDirs,
           stdout, console, devnull, last, pc, calls, batch, idx, log >>

session == << url, name, video >>
files   == << jpgDirs, jpgFiles, csvFiles, madeDirs >>
output  == << stdout, console, devnull >>
driver  == << batch, idx, log >>

\* the record kept of a library call
NoCall ==
    [ op |-> "none", item |-> <<>>, result |-> "none", line |-> 0,
      delta |-> 0, dir |-> <<>>, csv |-> FALSE, frames |-> 0, fps |-> 0,
      name |-> <<>>, seeked |-> <<>>, written |-> <<>>, errArgs |-> <<>>,
      priorJpg |-> {}, priorCsv |-> {}, priorSession |-> <<>> ]

(* ------------------------------- helpers ------------------------------- *)
RECURSIVE Range(_, _, _)
\* list(range(start, stop, step)) for step # 0
Range(start, stop, step) ==
    IF step > 0
    THEN IF start < stop
         THEN <<start>> \o Range(start + step, stop, step) ELSE <<>>
    ELSE IF start > stop
         THEN <<start>> \o Range(start + step, stop, step) ELSE <<>>

\* int(self.frames / self.fps) for fps > 0
Duration(v) == v.frames \div v.fps

\* id for a new capture object: the smallest one not in use
FreshSid == CHOOSE i \in 1..3 : i \notin (open \cup {video.sid}) /\
              \A j \in 1..3 : j \notin (open \cup {video.sid}) => i <= j

\* print(msg) while sys.stdout is `stream`
EmitTo(stream, msgs) ==
    IF stream = "real"
    THEN console' = console \o msgs /\ UNCHANGED devnull
    ELSE devnull' = devnull \o msgs /\ UNCHANGED console

\* print(msg): goes to whatever sys.stdout currently is
Emit(msgs) == EmitTo(stdout, msgs)

\* self.video.set(1, i); _, frame_arr = self.video.read(): a frame is
\* decoded iff i is a position of the stream and its block is not corrupt
Decodes(v, i, corrupt) == i >= 0 /\ i < v.frames /\ i # corrupt

\* position in step_range of the first frame whose decode fails
\* (Len + 1 when every frame decodes)
FirstBad(v, step_range, corrupt) ==
    IF \E k \in 1..Len(step_range) : ~Decodes(v, step_range[k], corrupt)
    THEN CHOOSE k \in 1..Len(step_range) :
            /\ ~Decodes(v, step_range[k], corrupt)
            /\ \A j \in 1..(k - 1) : Decodes(v, step_range[j], corrupt)
    ELSE Len(step_range) + 1

\* the range the loop and the manifest iterate over
StepRange(frames, step) == Range(0, frames + 1, step)

\* the rows of the DataFrame written by to_csv
ManifestRows(fout_path, step_range) ==
    [ k \in 1..Len(step_range) |->
        [ url |-> url, name |-> name, frame |-> step_range[k],
          path |-> <<fout_path, step_range[k]>> ] ]

(* --------------------------- WebCAT.generate_url ----------------------- *)
\* url = f"..."; vid = cv2.VideoCapture(url): the probe of the remote
\* resource reports a frame count and a frame rate; a resource that cannot
\* be opened reports 0 frames
GenOpen(item, framesSet, fpsSet) ==
    \E frames \in framesSet, fps \in fpsSet \cup {0}, opened \in BOOLEAN :
        /\ frames > 0 => opened /\ fps \in fpsSet
        /\ frames = 0 => fps = 0
        /\ vid' = [sid |-> FreshSid, item |-> item,
                   frames |-> frames, fps |-> fps]
        /\ open' = IF opened THEN open \cup {FreshSid} ELSE open
        /\ last' = [NoCall EXCEPT !.op = "generate_url", !.item = item,
                        !.result = "running", !.frames = frames,
                        !.fps = fps, !.priorSession = session]
        /\ UNCHANGED << session, files, output >>

\* mutant: url and name are bound before the frame count is checked
GenCheckEager ==
    /\ url' = GenUrl(vid.item)
    /\ name' = GenName(vid.item)
    /\ IF vid.frames = 0
       THEN /\ last' = [last EXCEPT !.result = "ValueError", !.line = 98,
                                    !.errArgs = <<GenUrl(vid.item)>>]
            /\ UNCHANGED << video, vid, open, files, output >>
       ELSE /\ video' = vid
            /\ open' = open \ {video.sid}
            /\ vid' = NoVideo
            /\ last' = [last EXCEPT !.result = "ok"]
            /\ UNCHANGED << files, output >>

\* if int(vid.get(7)) == 0: raise ValueError ... else: bind url, video, name
GenCheck ==
    IF vid.frames = 0
    THEN \* the message names the url
         /\ last' = [last EXCEPT !.result = "ValueError", !.line = 98,
                                 !.errArgs = <<GenUrl(vid.item)>>]
         /\ UNCHANGED << session, vid, open, files, output >>
    ELSE /\ url' = GenUrl(vid.item)
         /\ video' = vid
         /\ name' = GenName(vid.item)
         \* the capture previously held loses its last reference
         /\ open' = open \ {video.sid}
         /\ vid' = NoVideo
         /\ last' = [last EXCEPT !.result = "ok"]
         /\ UNCHANGED << files, output >>

\* the exception has been handled: the frame of generate_url, and with it
\* the capture `vid`, is dropped
DropVid ==
    /\ open' = open \ {vid.sid}
    /\ vid' = NoVideo

(* --------------------------- WebCAT.save_frames ------------------------ *)
\* mutant: the jpg directory is emptied before the arguments are validated
SaveFramesRaiseCleared(call, result, line, args) ==
    /\ last' = [call EXCEPT !.result = result, !.line = line,
                            !.errArgs = args]
    /\ jpgFiles' = {f \in jpgFiles : f.dir # call.dir}
    /\ jpgDirs' = jpgDirs \cup {call.dir}
    /\ UNCHANGED << session, vid, open, csvFiles, madeDirs >>

\* raise: the call ends here, nothing else is touched
SaveFramesRaise(call, result, line, args) ==
    /\ last' = [call EXCEPT !.result = result, !.line = line,
                            !.errArgs = args]
    /\ UNCHANGED << session, vid, open, files >>

\* mutant: the comparison is strict, so an interval equal to the duration
\* is accepted
IntervalTooLongStrict(delta_t, v) == delta_t > Duration(v)

\* if delta_t >= int(self.frames / self.fps): raise ValueError
IntervalTooLong(delta_t, v) == delta_t >= Duration(v)

\* mutant: the directory is only created when absent, never emptied
ClearJpgIfAbsent(fout_path) == jpgFiles

\* if os.path.exists(tmp_dir): shutil.rmtree(tmp_dir); os.makedirs(tmp_dir)
\* what is left of the frame files
ClearJpg(fout_path) == {f \in jpgFiles : f.dir # fout_path}

\* cv2.imwrite(path, frame_arr) for each frame of `written`: a file of the
\* same path is replaced
ImWrite(existing, fout_path, written) ==
    {f \in existing :
        ~(f.dir = fout_path /\ \E k \in 1..Len(written) : written[k] = f.frame)}
    \cup { [dir |-> fout_path, frame |-> written[k], src |-> video.item] :
             k \in 1..Len(written) }

\* mutant: the manifest is opened in append mode
ToCsvAppend(fout_path, rows) ==
    LET old == {c \in csvFiles : c.dir = fout_path /\ c.name = name} IN
    (csvFiles \ old) \cup
    IF old = {}
    THEN { [dir |-> fout_path, name |-> name, rows |-> rows] }
    ELSE { [dir |-> fout_path, name |-> name, rows |-> c.rows \o rows] :
            c \in old }

\* DataFrame(...).to_csv(os.path.join(fout_path, f"{self.name}.csv")):
\* the file of that path is truncated and rewritten
ToCsv(fout_path, rows) ==
    {c \in csvFiles : ~(c.dir = fout_path /\ c.name = name)}
    \cup { [dir |-> fout_path, name |-> name, rows |-> rows] }

SaveFrames(delta_t, fout_path, save_csv, corrupt) ==
    LET call == [NoCall EXCEPT
                    !.op = "save_frames", !.item = video.item,
                    !.delta = delta_t, !.dir = fout_path, !.csv = save_csv,
                    !.frames = video.frames, !.fps = video.fps,
                    !.name = name, !.priorSession = session,
                    !.priorJpg = {f \in jpgFiles : f.dir = fout_path},
                    !.priorCsv = {c \in csvFiles : c.dir = fout_path}]
    IN
    IF video = NoVideo
    THEN \* self.frames on self.video = None
         SaveFramesRaise(call, "AttributeError", 143, <<>>) /\ UNCHANGED output
    ELSE IF video.fps = 0
    THEN SaveFramesRaise(call, "ZeroDivisionError", 143, <<>>)
         /\ UNCHANGED output
    ELSE IF IntervalTooLong(delta_t, video)
    THEN \* the message names the duration
         SaveFramesRaise(call, "ValueError", 144, <<Duration(video)>>)
         /\ UNCHANGED output
    ELSE
    LET step == delta_t * video.fps IN
    /\ Emit(<< [kind |-> "fps", text |-> <<video.fps>>] >>)
    /\ UNCHANGED stdout
    /\ IF step = 0
       THEN \* range() arg 3 must not be zero
            SaveFramesRaise(call, "ValueError", 149, <<>>)
       ELSE
       LET step_range == StepRange(video.frames, step)
           bad     == FirstBad(video, step_range, corrupt)
           seeked  == SubSeq(step_range, 1,
                             IF bad > Len(step_range)
                             THEN Len(step_range) ELSE bad)
           written == SubSeq(step_range, 1, bad - 1)
           done    == bad > Len(step_range)
       IN
       \* the jpg directory is emptied, then one imwrite per decoded frame;
       \* imwrite of the None of a failed read raises cv2.error
       \* ("!_img.empty()"), which names neither frame nor path
       /\ jpgDirs' = jpgDirs \cup {fout_path}
       /\ jpgFiles' = ImWrite(ClearJpg(fout_path), fout_path, written)
       /\ csvFiles' =
            IF done /\ save_csv
            THEN ToCsv(fout_path, ManifestRows(fout_path, step_range))
            ELSE csvFiles
       /\ last' = [call EXCEPT
                     !.result = IF done THEN "ok" ELSE "cv2.error",
                     !.line = IF done THEN 0 ELSE 158,
                     !.seeked = seeked, !.written = written]
       /\ UNCHANGED << session, vid, open, madeDirs >>

(* ------------------------ the library used directly -------------------- *)
ApiGenOpen(item) ==
    /\ pc = "idle" /\ calls < MaxCalls
    /\ GenOpen(item, ApiFrames, FpsValues)
    /\ pc' = "probing" /\ calls' = calls + 1
    /\ UNCHANGED driver

ApiGenCheck ==
    /\ pc = "probing"
    /\ GenCheck
    /\ pc' = IF vid.frames = 0 THEN "raised" ELSE "idle"
    /\ UNCHANGED << calls, driver >>

\* the caller catches the ValueError of generate_url
ApiCatch ==
    /\ pc = "raised"
    /\ DropVid
    /\ pc' = "idle"
    /\ UNCHANGED << session, files, output, last, calls, driver >>

ApiSaveFrames(delta_t, fout_path, save_csv, corrupt) ==
    /\ pc = "idle" /\ calls < MaxCalls
    /\ SaveFrames(delta_t, fout_path, save_csv, corrupt)
    /\ calls' = calls + 1
    /\ UNCHANGED << pc, driver >>

\* the corrupt block of the stream, if any (-1: none), among the positions
\* a call with this interval reads
Corruptible(delta_t) ==
    {-1} \cup { i \in 0..(video.frames - 1) :
                  delta_t * video.fps > 0 /\ i % (delta_t * video.fps) = 0 }

NoBatch ==
    [ station |-> <<>>, year |-> <<>>, month |-> <<>>, day |-> <<>>,
      time |-> <<>>, interval |-> 0, no_meta |-> FALSE, verbose |-> FALSE ]

\* wc = WebCAT(): nothing held, nothing on disk, stdout is the real stream
InitCommon ==
    /\ url = None /\ name = None /\ video = NoVideo
    /\ vid = NoVideo /\ open = {}
    /\ csvFiles = {} /\ madeDirs = {}
    /\ stdout = "real" /\ console = <<>> /\ devnull = <<>>
    /\ last = NoCall /\ calls = 0 /\ idx = 1 /\ log = <<>>

Init ==
    /\ InitCommon /\ pc = "idle" /\ batch = NoBatch
    /\ \E old \in SUBSET ApiDirs :
          /\ jpgDirs = old
          /\ jpgFiles = UNION { OldFrames(d) : d \in old }

Next ==
    \/ \E item \in ApiItems : ApiGenOpen(item)
    \/ ApiGenCheck
    \/ ApiCatch
    \/ \E delta_t \in Deltas, fout_path \in ApiDirs, save_csv \in BOOLEAN :
          \E corrupt \in Corruptible(delta_t) :
            ApiSaveFrames(delta_t, fout_path, save_csv, corrupt)

Spec == Init /\ [][Next]_vars

(* ------------------------- the batch driver main() --------------------- *)
\* mutant: the first list varies fastest
ProductFirstFastest(s, y, m, d, t) ==
    [ k \in 1..(Len(s) * Len(y) * Len(m) * Len(d) * Len(t)) |->
        LET n == k - 1 IN
        << s[(n % Len(s)) + 1],
           y[((n \div Len(s)) % Len(y)) + 1],
           m[((n \div (Len(s) * Len(y))) % Len(m)) + 1],
           d[((n \div (Len(s) * Len(y) * Len(m))) % Len(d)) + 1],
           t[((n \div (Len(s) * Len(y) * Len(m) * Len(d))) % Len(t)) + 1] >> ]

\* list(itertools.product(station, year, month, day, time)): the last list
\* varies fastest
Product(s, y, m, d, t) ==
    [ k \in 1..(Len(s) * Len(y) * Len(m) * Len(d) * Len(t)) |->
        LET n == k - 1 IN
        << s[((n \div (Len(y) * Len(m) * Len(d) * Len(t))) % Len(s)) + 1],
           y[((n \div (Len(m) * Len(d) * Len(t))) % Len(y)) + 1],
           m[((n \div (Len(d) * Len(t))) % Len(m)) + 1],
           d[((n \div Len(t)) % Len(d)) + 1],
           t[(n % Len(t)) + 1] >> ]

Items == Product(batch.station, batch.year, batch.month, batch.day, batch.time)

\* mutant: the clause is `except ValueError:`
CatchesValueError(result) == result = "ValueError"

\* the bare `except:` clause catches whatever is raised in the try body
Catches(result) == TRUE

\* os.path.join(directory, item[0], wc.name)
TmpDir(item) == << "directory", item[1], name >>

\* the argument lists the driver is started with
Batches ==
    { [ station |-> st, year |-> <<2019>>, month |-> <<9>>, day |-> <<5>>,
        time |-> <<30, 1000>>, interval |-> i, no_meta |-> nm, verbose |-> v ] :
        st \in { <<"buxton">>, <<"buxton", "oakisland">> },
        i \in Deltas, nm \in BOOLEAN, v \in BOOLEAN }

LogEntry(item, probe, sample, call) ==
    [ item |-> item, probe |-> probe, sample |-> sample,
      frames |-> call.frames, fps |-> call.fps ]

\* for item in itertools.product(...): try: sys.stdout = open(os.devnull, "w")
MainRedirect ==
    /\ pc = "loop" /\ idx <= Len(Items)
    /\ stdout' = "devnull"
    /\ pc' = "generate_url"
    /\ UNCHANGED << session, vid, open, files, console, devnull, last,
                    calls, driver >>

\* the loop is exhausted: main() returns
MainReturn ==
    /\ pc = "loop" /\ idx > Len(Items)
    /\ pc' = "returned"
    /\ UNCHANGED << session, vid, open, files, output, last, calls, driver >>

\* wc.generate_url(*item), up to the probe
MainGenOpen ==
    /\ pc = "generate_url"
    /\ GenOpen(Items[idx], MainFrames, MainFps)
    /\ pc' = "probing"
    /\ UNCHANGED << calls, driver >>

\* wc.generate_url(*item), the validation
MainGenCheck ==
    /\ pc = "probing"
    /\ GenCheck
    /\ pc' = IF vid.frames # 0 THEN "reinstate"
             ELSE IF Catches("ValueError") THEN "except" ELSE "uncaught"
    /\ UNCHANGED << calls, driver >>

\* sys.stdout = sys.__stdout__; os.makedirs(tmp_dir) if it does not exist;
\* if verbose: print("Saving frames of ...")
MainReinstate ==
    /\ pc = "reinstate"
    /\ stdout' = "real"
    /\ madeDirs' = madeDirs \cup {TmpDir(Items[idx])}
    /\ IF batch.verbose
       THEN EmitTo("real", << [kind |-> "saving", text |-> name] >>)
       ELSE UNCHANGED << console, devnull >>
    /\ pc' = "save_frames"
    /\ UNCHANGED << session, vid, open, jpgDirs, jpgFiles, csvFiles, last,
                    calls, driver >>

\* wc.save_frames(interval, tmp_dir, not no_meta, verbose)
MainSaveFrames ==
    /\ pc = "save_frames"
    /\ \E corrupt \in {-1, 0} :
          SaveFrames(batch.interval, TmpDir(Items[idx]), ~batch.no_meta, corrupt)
    /\ IF last'.result = "ok"
       THEN /\ log' = Append(log, LogEntry(Items[idx], "ok", "ok", last'))
            /\ idx' = idx + 1
            /\ pc' = "loop"
       ELSE /\ pc' = IF Catches(last'.result) THEN "except" ELSE "uncaught"
            /\ UNCHANGED << idx, log >>
    /\ UNCHANGED << calls, batch >>

\* except: if verbose: print("Warning: {url} not a valid url... Skipping.")
MainExcept ==
    /\ pc = "except"
    /\ IF batch.verbose
       THEN Emit(<< [kind |-> "skip", text |-> SkipUrl(Items[idx])] >>)
       ELSE UNCHANGED << console, devnull >>
    /\ DropVid
    /\ log' = Append(log, IF last.op = "generate_url"
                          THEN LogEntry(Items[idx], "failed", "skipped", last)
                          ELSE LogEntry(Items[idx], "ok", last.result, last))
    /\ idx' = idx + 1
    /\ pc' = "loop"
    /\ UNCHANGED << session, files, stdout, last, calls, batch >>

InitMain ==
    /\ InitCommon /\ pc = "loop"
    /\ jpgDirs = {} /\ jpgFiles = {}
    /\ batch \in Batches

NextMain ==
    \/ MainRedirect
    \/ MainGenOpen
    \/ MainGenCheck
    \/ MainReinstate
    \/ MainSaveFrames
    \/ MainExcept
    \/ MainReturn

SpecMain == InitMain /\ [][NextMain]_vars

(* ------------------------------- properties ---------------------------- *)
\* floor(a / b) for a >= 0, b > 0, by its defining inequality
Floor(a, b) == CHOOSE q \in 0..a : q * b <= a /\ a < (q + 1) * b

\* the elements of a sequence
Elems(seq) == { seq[k] : k \in 1..Len(seq) }

\* the multiples of step in 0..frames, step > 0
Multiples(frames, step) == { i \in 0..frames : i % step = 0 }

SaveDone == last.op = "save_frames" /\ last.result = "ok"

\* the output directory of a key handled by the driver
KeyDir(item) == << "directory", item[1], GenName(item) >>

KeyDone(e) == e.probe = "ok" /\ e.sample = "ok"

\* C1: the driver never lets an exception escape, handles every key of the
\* batch, and every key whose probe and sampling both succeeded has exactly
\* its frames on disk, and its manifest when enabled, wherever the failing
\* keys lie in the batch.
C1_FailureIsolation ==
    /\ pc # "uncaught"
    /\ pc = "returned" =>
          /\ Len(log) = Len(Items)
          /\ \A k \in 1..Len(log) : log[k].item = Items[k]
    /\ \A k \in 1..Len(log) :
          KeyDone(log[k]) =>
            LET e    == log[k]
                step == batch.interval * e.fps
                want == IF step > 0 THEN Multiples(e.frames, step) ELSE {}
            IN
            /\ KeyDir(e.item) \in jpgDirs
            /\ {f \in jpgFiles : f.dir = KeyDir(e.item)} =
                  { [dir |-> KeyDir(e.item), frame |-> i, src |-> e.item] :
                      i \in want }
            /\ ~batch.no_meta =>
                  \E c \in csvFiles :
                     /\ c.dir = KeyDir(e.item) /\ c.name = GenName(e.item)
                     /\ { c.rows[j].frame : j \in 1..Len(c.rows) } = want
                     /\ Len(c.rows) = Cardinality(want)

\* C1 witness: the driver has returned from a batch in which a key that
\* failed lies between two keys that were fully sampled.
C1_Witness ==
    /\ pc = "returned"
    /\ \E i, j, k \in 1..Len(log) :
          /\ i < j /\ j < k
          /\ KeyDone(log[i]) /\ ~KeyDone(log[j]) /\ KeyDone(log[k])
          /\ batch.interval > 0

\* C2: in a batch with exactly one invalid key (all other keys sampled),
\* run verbosely, the real standard output carries exactly one skip notice,
\* and it names the url generate_url builds for the invalid key.
C2_OneSkipNotice ==
    LET bad     == { k \in 1..Len(log) : log[k].probe = "failed" }
        notices == { j \in 1..Len(console) : console[j].kind = "skip" }
    IN
    ( /\ pc = "returned" /\ batch.verbose
      /\ Cardinality(bad) = 1
      /\ \A k \in (1..Len(log)) \ bad : KeyDone(log[k]) )
    => /\ Cardinality(notices) = 1
       /\ \A j \in notices : \A k \in bad :
             console[j].text = GenUrl(log[k].item)

\* C3: for a held stream (fps > 0), save_frames raises the invalid-interval
\* ValueError exactly when delta_t >= floor(frames / fps) and goes on to the
\* sampling code exactly when delta_t < floor(frames / fps); with 17097
\* frames at 28 fps, 300 is accepted and 610 is rejected.
C3_IntervalGuard ==
    /\ (last.op = "save_frames" /\ last.frames > 0 /\ last.fps > 0) =>
          LET rejected == last.result = "ValueError" /\ last.line = 144
              proceeded == last.result = "ok" \/ last.line \in {149, 158}
          IN
          /\ rejected <=> last.delta >= Floor(last.frames, last.fps)
          /\ proceeded <=> last.delta < Floor(last.frames, last.fps)
    /\ ~IntervalTooLong(300, [frames |-> 17097, fps |-> 28])
    /\ IntervalTooLong(610, [frames |-> 17097, fps |-> 28])

\* C3 witness: a call whose interval equals the duration in whole seconds
\* has been rejected.
C3_Witness ==
    /\ last.op = "save_frames" /\ last.fps > 0 /\ last.delta > 0
    /\ last.delta = Floor(last.frames, last.fps)
    /\ last.result = "ValueError" /\ last.line = 144

\* C4: the frames a successful save_frames seeks, decodes and writes are
\* 0, step, 2*step, ...: they start at 0, increase strictly, do not exceed
\* frames, and there are floor(frames / step) + 1 of them.
C4_SampleIndices ==
    SaveDone =>
       LET step == last.delta * last.fps
           n    == Len(last.written)
       IN
       /\ last.seeked = last.written
       /\ n >= 1 /\ last.written[1] = 0
       /\ \A k \in 1..n : last.written[k] = (k - 1) * step
       /\ \A k \in 1..n : last.written[k] <= last.frames
       /\ step > 0 => n = Floor(last.frames, step) + 1

\* C5: every save_frames call that completes without raising, whatever the
\* interval (zero and negative included), has written frames at two or more
\* distinct frame indices.
C5_TwoSamples ==
    SaveDone => Cardinality(Elems(last.written)) >= 2

\* C6: after a successful save_frames with the manifest enabled, the output
\* directory holds exactly one file <name>.csv, its rows are those of this
\* run, one per sample, and no row of an earlier run; when the directory
\* held no manifest of another name it is the only manifest there.
C6_ManifestReplaced ==
    (SaveDone /\ last.csv) =>
       LET mine == {c \in csvFiles : c.dir = last.dir /\ c.name = last.name}
       IN
       /\ Cardinality(mine) = 1
       /\ \A c \in mine :
             /\ Len(c.rows) = Len(last.written)
             /\ \A k \in 1..Len(c.rows) :
                   c.rows[k] = [ url |-> url, name |-> name,
                                 frame |-> last.written[k],
                                 path |-> <<last.dir, last.written[k]>> ]
       /\ { c.name : c \in last.priorCsv } \subseteq {last.name} =>
             {c \in csvFiles : c.dir = last.dir} = mine

\* C6 witness: a second successful run with the manifest enabled, into a
\* directory whose manifest of the same name listed other frames.
C6_Witness ==
    /\ SaveDone /\ last.csv /\ Len(last.written) >= 2
    /\ \E c \in last.priorCsv :
          /\ c.name = last.name /\ Len(c.rows) >= 2
          /\ c.rows[2].frame # last.written[2]

\* C7: at every point at most one video stream is open.
C7_AtMostOneStream == Cardinality(open) <= 1

\* C8: url, name and video are all unset or all derived from one key; a
\* generate_url whose stream reports zero frames raises ValueError and
\* leaves the three unchanged; a successful one binds all three to its key.
C8_SessionAtomic ==
    /\ \/ url = None /\ name = None /\ video = NoVideo
       \/ /\ video # NoVideo /\ video.frames > 0
          /\ url = GenUrl(video.item) /\ name = GenName(video.item)
    /\ (last.op = "generate_url" /\ last.result # "running") =>
          /\ last.result = "ValueError" <=> last.frames = 0
          /\ last.result = "ok" <=> last.frames > 0
          /\ last.result = "ValueError" => session = last.priorSession
          /\ last.result = "ok" =>
                /\ video.item = last.item /\ video.frames = last.frames
                /\ url = GenUrl(last.item) /\ name = GenName(last.item)

\* C8 witness: a generate_url for another key has failed while the session
\* held a video.
C8_Witness ==
    /\ last.op = "generate_url" /\ last.result = "ValueError"
    /\ video # NoVideo /\ video.item # last.item

\* C9: whenever the decode of a sampled frame fails, save_frames raises an
\* error that identifies the index of that frame.
C9_DecodeErrorNamesFrame ==
    (last.op = "save_frames" /\ Len(last.seeked) > Len(last.written)) =>
       /\ last.result # "ok"
       /\ \E k \in 1..Len(last.errArgs) :
             last.errArgs[k] = last.seeked[Len(last.seeked)]

\* C10: after a successful save_frames the jpg subdirectory exists and holds
\* exactly the frames sampled by this call, whatever it held before.
C10_NoStaleFrames ==
    SaveDone =>
       /\ last.dir \in jpgDirs
       /\ {f \in jpgFiles : f.dir = last.dir} =
             { [dir |-> last.dir, frame |-> i, src |-> last.item] :
                 i \in Elems(last.written) }

\* C10 witness: a successful call into a directory that held frames of
\* another video, some at indices this call samples and some not.
C10_Witness ==
    /\ SaveDone /\ Len(last.written) >= 2
    /\ \E f \in last.priorJpg :
          f.src # last.item /\ f.frame \in Elems(last.written)
    /\ \E f \in last.priorJpg :
          f.src # last.item /\ f.frame \notin Elems(last.written)

\* the most recent step was a save_frames call rejected by the interval guard
IntervalRejected ==
    last.op = "save_frames" /\ last.result = "ValueError" /\ last.line = 144

\* C11: a save_frames call that raises the invalid-interval error leaves the
\* jpg directories, the frame files, the manifests and the session's url,
\* name and video as they were, and seeks and decodes no frame.
C11_RejectedBeforeFrameWork ==
    [][ (calls' = calls + 1 /\ IntervalRejected')
        => /\ UNCHANGED << url, name, video, vid, open >>
           /\ UNCHANGED << jpgDirs, jpgFiles, csvFiles, madeDirs >>
           /\ last'.seeked = <<>> /\ last'.written = <<>> ]_vars

\* C11 witness: a call has been rejected by the interval guard while the
\* output directory held frames and a manifest of an earlier run.
C11_Witness ==
    /\ IntervalRejected
    /\ \E f \in last.priorJpg : f.src = last.item
    /\ last.priorCsv # {}
    /\ {f \in jpgFiles : f.dir = last.dir} = last.priorJpg

\* position of a value in a duplicate-free list
Pos(list, v) == CHOOSE i \in 1..Len(list) : list[i] = v

\* the positions of a key's fields in the five argument lists
Rank(item) ==
    << Pos(batch.station, item[1]), Pos(batch.year, item[2]),
       Pos(batch.month, item[3]), Pos(batch.day, item[4]),
       Pos(batch.time, item[5]) >>

\* lexicographic order of two ranks, station first and time last
LexLess(a, b) ==
    \E i \in 1..5 : a[i] < b[i] /\ \A j \in 1..(i - 1) : a[j] = b[j]

\* every combination of the five lists
AllKeys ==
    { <<s, y, m, d, t>> : s \in Elems(batch.station), y \in Elems(batch.year),
                          m \in Elems(batch.month), d \in Elems(batch.day),
                          t \in Elems(batch.time) }

\* the current key's own probe succeeded in this iteration
OwnProbeOk == idx <= Len(Items) /\ video.item = Items[idx]

\* C12: the driver handles the keys one after the other, each combination
\* once, in list order with station outermost and time innermost; the
\* per-key directory is made and save_frames runs only after the key's own
\* probe succeeded, on the stream of that key and into that key's directory.
C12_SequentialInOrder ==
    /\ idx = Len(log) + 1
    /\ \A i, j \in 1..Len(log) :
          i < j => LexLess(Rank(log[i].item), Rank(log[j].item))
    /\ Elems(log) # {} => { e.item : e \in Elems(log) } \subseteq AllKeys
    /\ pc = "returned" => { e.item : e \in Elems(log) } = AllKeys
    /\ pc \in {"reinstate", "save_frames"} =>
          /\ OwnProbeOk
          /\ last.op = "generate_url" /\ last.result = "ok"
          /\ last.item = Items[idx]
    /\ last.op = "save_frames" =>
          LET cur == IF pc = "except" THEN Items[idx]
                     ELSE log[Len(log)].item
          IN last.item = cur /\ last.dir = KeyDir(cur) /\ last.dir \in madeDirs
    /\ \A dir \in madeDirs \cup jpgDirs :
          \/ \E e \in Elems(log) : e.probe = "ok" /\ KeyDir(e.item) = dir
          \/ /\ pc \in {"save_frames", "except"} /\ OwnProbeOk
             /\ KeyDir(Items[idx]) = dir
    /\ \A f \in jpgFiles : f.dir = KeyDir(f.src)

\* C12 witness: a batch of two stations and two times has returned; the
\* probe of its second key failed while the stream of the first was held,
\* and the third key was sampled afterwards.
C12_Witness ==
    /\ pc = "returned" /\ Len(log) = 4
    /\ log[1].item[1] = log[2].item[1] /\ log[1].item[5] # log[2].item[5]
    /\ log[3].item[1] # log[2].item[1]
    /\ KeyDone(log[1]) /\ log[2].probe = "failed" /\ KeyDone(log[3])
    /\ batch.interval > 0

\* the frame paths a manifest lists
ListedPaths(c) == { c.rows[k].path : k \in 1..Len(c.rows) }

\* the frame files of the jpg subdirectory of an output directory
JpgPaths(dir) == { <<f.dir, f.frame>> : f \in {g \in jpgFiles : g.dir = dir} }

\* C13: whenever a manifest exists in an output directory, the frame paths
\* it lists are exactly the frame files of that directory's jpg
\* subdirectory, whatever save_frames calls came before.
C13_ManifestMatchesJpg ==
    \A c \in csvFiles : ListedPaths(c) = JpgPaths(c.dir)

\* C14: a status or skip message of the driver is never written while
\* standard output is redirected, and standard output is the real stream
\* when main() has returned.
C14_RedirectionUndone ==
    /\ \A k \in 1..Len(devnull) : devnull[k].kind \notin {"saving", "skip"}
    /\ pc = "returned" => stdout = "real"

\* C15: every frame position save_frames seeks to lies in 0..frames-1.
C15_SeeksValidPositions ==
    last.op = "save_frames" =>
       \A k \in 1..Len(last.seeked) :
          0 <= last.seeked[k] /\ last.seeked[k] < last.frames

====
